---------------------------- MODULE Spec2Model ----------------------------
(***************************************************************************)
(* The parametric module expansion engine of the optics editor: the        *)
(* ModuleObj scene object (template expander, loop expansion with its      *)
(* length cap, the instance's event handlers, demodulization).             *)
(*                                                                         *)
(* Five specifications share this module:                                  *)
(*   Spec       the life of one ModuleObj in a scene, one action per       *)
(*              event handler;                                             *)
(*   SpecArray  expandArray as a pure function of a bounded set of         *)
(*              inputs;                                                    *)
(*   SpecLoop   the `for (value = start; value <= end; value += step)`     *)
(*              loop of expandLoopVars, one iteration per step, with weak  *)
(*              fairness (the JavaScript engine keeps running the loop);   *)
(*   SpecTwice  expandObjs called twice in a row on one instance, over the  *)
(*              scene's random-number stream;                               *)
(*   SpecError  getError as a pure function of the instance's error and    *)
(*              of its expanded objects.                                    *)
(***************************************************************************)
EXTENDS Integers, Sequences, FiniteSets, TLC

VARIABLES
  \* ---- Spec: one ModuleObj and the scene that owns it
  stage,       \* "none" before construction, "live", "failed" (the constructor threw),
               \* "hung" (a handler never returned), "demodulized"
  inst,        \* the ModuleObj's fields: module, points, pointsIsNull, params, notDone, objs, error
  scene,       \* scene.objs, the scene's object list
  lastEvent,   \* observation: the handler that ran last
  exit,        \* observation: how that handler ended: "return", "throw" (an exception
               \* escaped to its caller), "hang"
  calls,       \* observation: the number of expandObjs calls that handler made
  objsAtCall,  \* observation: this.objs at the entry of its last expandObjs call
  lastArgs,    \* observation: <<diffX, diffY>> of a move, <<>> for the other handlers
  \* ---- SpecArray: one application of expandArray
  arrIn,       \* [arr, params, maxLoopLength]
  arrOut,      \* [result, loopParams] once expandArray was applied
  \* ---- SpecLoop: the for loop of expandLoopVars
  loopVar,     \* loopVars[0]: [name, start, step, end]
  loopMax,     \* moduleDef.maxLoopLength
  pc,          \* "check", "loop", "body", "returned", "thrown"
  value,       \* the loop variable
  pushed,      \* result.length, saturating at MaxPushed
  \* ---- the scene's random-number stream, and SpecTwice
  rng,         \* scene.rng: the value its next call returns
  runs,        \* observation: one [rng, objs, error, exit] per expandObjs call made
  \* ---- SpecError: one application of getError
  report       \* what getError returned, [kind |-> "idle"] before the call

vars == <<stage, inst, scene, lastEvent, exit, calls, objsAtCall, lastArgs,
          arrIn, arrOut, loopVar, loopMax, pc, value, pushed, rng, runs,
          report>>

mainVars == <<stage, inst, scene, lastEvent, exit, calls, objsAtCall, lastArgs>>
arrVars == <<arrIn, arrOut>>
loopState == <<loopVar, loopMax, pc, value, pushed>>
twiceVars == <<rng, runs>>
errVars == <<report>>

-----------------------------------------------------------------------------
(* Outcomes of a call: a returned value, a thrown error, or no return at all. *)

Ok(v) == [st |-> "ok", val |-> v]
Throw(e) == [st |-> "throw", val |-> e]
Hang == [st |-> "hang", val |-> "hang"]

RangeParseError == "RangeParseError"
TemplateExpansionError == "TemplateExpansionError"
LoopTooLargeError == "LoopTooLargeError"
TypeError == "TypeError"

Null == "null"

(* `maxLoopLength || 1000`: an absent (undefined) and a zero maxLoopLength  *)
(* are both falsy; the model writes both as 0.                              *)
DefaultMaxLoopLength == 1000

MaxLoop(maxLoopLength) ==
  IF maxLoopLength = 0 THEN DefaultMaxLoopLength ELSE maxLoopLength

-----------------------------------------------------------------------------
(* The expression evaluator (math.evaluate), on the expressions the model  *)
(* uses: a numeral, a variable, variable + numeral, variable != numeral,   *)
(* the call `random()`, and a string that does not parse.  A boolean       *)
(* result is written 1 / 0, which has the truthiness JavaScript gives      *)
(* true / false.  The scope binds `random` to the value the call returns;  *)
(* without the binding the call is math.js's own random, which no template *)
(* of the model reaches and which is written as 0.                         *)

Num(v) == [op |-> "num", n |-> "", v |-> v]
Var(n) == [op |-> "var", n |-> n, v |-> 0]
Add(n, v) == [op |-> "add", n |-> n, v |-> v]
Neq(n, v) == [op |-> "neq", n |-> n, v |-> v]
Rand == [op |-> "rand", n |-> "random", v |-> 0]
Bad == [op |-> "bad", n |-> "", v |-> 0]

Evaluate(expr, scope) ==
  CASE expr.op = "num" -> Ok(expr.v)
    [] expr.op = "var" ->
         IF expr.n \in DOMAIN scope THEN Ok(scope[expr.n])
         ELSE Throw(TemplateExpansionError)
    [] expr.op = "add" ->
         IF expr.n \in DOMAIN scope THEN Ok(scope[expr.n] + expr.v)
         ELSE Throw(TemplateExpansionError)
    [] expr.op = "neq" ->
         IF expr.n \in DOMAIN scope
         THEN Ok(IF scope[expr.n] # expr.v THEN 1 ELSE 0)
         ELSE Throw(TemplateExpansionError)
    [] expr.op = "rand" ->
         IF expr.n \in DOMAIN scope THEN Ok(scope[expr.n]) ELSE Ok(0)
    [] OTHER -> Throw(TemplateExpansionError)

Truthy(v) == v # 0

(* Object.assign({}, obj); obj1[name] = value *)
Assign(obj, name, v) ==
  [k \in (DOMAIN obj) \cup {name} |-> IF k = name THEN v ELSE obj[k]]

EmptyObj == [k \in {} |-> 0]

-----------------------------------------------------------------------------
(* parseVariableRange.  A descriptor string "name=start:step:end[:default]" *)
(* is written as what its two splits give: eq (the string has an '='),      *)
(* name, and parts2, the ':'-separated expressions.                         *)

Desc(name, parts2) == [eq |-> TRUE, name |-> name, parts2 |-> parts2]
NoEq(name) == [eq |-> FALSE, name |-> name, parts2 |-> <<>>]

ParseVariableRange(str, params) ==
  LET parts2 == str.parts2
      ev(i) == Evaluate(parts2[i], params)
  IN  IF ~str.eq \/ Len(parts2) < 3 THEN Throw(RangeParseError)
      ELSE IF ev(1).st # "ok" \/ ev(2).st # "ok" \/ ev(3).st # "ok"
      THEN Throw(RangeParseError)
      ELSE IF Len(parts2) = 4 /\ ev(4).st # "ok" THEN Throw(RangeParseError)
      ELSE Ok([name |-> str.name, start |-> ev(1).val, step |-> ev(2).val,
               end |-> ev(3).val,
               defaultVal |-> IF Len(parts2) = 4 THEN ev(4).val ELSE ev(1).val])

-----------------------------------------------------------------------------
(* expandLoopVars.                                                          *)

(* (end - start) / step + 1 > maxLoopLength || 1000, in real arithmetic:    *)
(* a zero step divides to +Infinity when end > start and to -Infinity or    *)
(* NaN otherwise, and neither of those is greater than the cap.             *)
LoopLengthExceeds(lv, maxLoopLength) ==
  LET cap == MaxLoop(maxLoopLength)
      d == lv.end - lv.start
  IN  IF lv.step > 0 THEN d > (cap - 1) * lv.step
      ELSE IF lv.step < 0 THEN d < (cap - 1) * lv.step
      ELSE d > 0

RECURSIVE ExpandLoopVars(_, _, _)
RECURSIVE LoopFrom(_, _, _, _, _)

(* Each obj of the inner list, copied, with the loop variable assigned. *)
AssignAll(objs, name, v) == [i \in 1..Len(objs) |-> Assign(objs[i], name, v)]

(* One iteration and the rest of the loop: the body calls                   *)
(* expandLoopVars(loopVars1) first (`inner`), so an error of an inner range *)
(* leaves the loop; after a body that returned, a step <= 0 leaves          *)
(* value <= end true for ever; else the iterations from value + step on     *)
(* (`rest`) follow.                                                         *)
LoopIteration(inner, lv, v, rest) ==
  IF inner.st # "ok" THEN inner
  ELSE IF lv.step <= 0 THEN Hang
  ELSE IF rest.st # "ok" THEN rest
  ELSE Ok(AssignAll(inner.val, lv.name, v) \o rest.val)

(* for (let value = v; value <= end; value += step) *)
LoopFrom(v, lv, loopVars1, params, maxLoopLength) ==
  IF ~(v <= lv.end) THEN Ok(<<>>)
  ELSE LoopIteration(ExpandLoopVars(loopVars1, params, maxLoopLength), lv, v,
                     IF lv.step <= 0 THEN Hang
                     ELSE LoopFrom(v + lv.step, lv, loopVars1, params, maxLoopLength))

ExpandLoopVars(lvs, params, maxLoopLength) ==
  IF Len(lvs) = 0 THEN Ok(<<params>>)
  ELSE IF LoopLengthExceeds(lvs[1], maxLoopLength) THEN Throw(LoopTooLargeError)
  ELSE LoopFrom(lvs[1].start, lvs[1], Tail(lvs), params, maxLoopLength)

-----------------------------------------------------------------------------
(* expandString, expandObject, expandArray.                                 *)
(*                                                                          *)
(* A template string is written as str.split('`') gives it: the odd places  *)
(* (1, 3, ...) are literal text, the even places expressions.  An object    *)
(* template is [kind, hasFor, forObj, hasIf, ifCond, fields]: its `for` and *)
(* `if` keys, and its other keys in order, each [key, kind, parts, arr,     *)
(* obj, val] by the type of its value.  A string `for` is a forObj of one   *)
(* descriptor.  An array element that is itself an array has kind "array"   *)
(* and its elements in arr; a string or a number has kind "primitive".      *)

FStr(key, parts) ==
  [key |-> key, kind |-> "string", parts |-> parts, arr |-> <<>>, obj |-> <<>>, val |-> 0]
FArr(key, arr) ==
  [key |-> key, kind |-> "array", parts |-> <<>>, arr |-> arr, obj |-> <<>>, val |-> 0]
FObj(key, obj) ==
  [key |-> key, kind |-> "object", parts |-> <<>>, arr |-> <<>>, obj |-> obj, val |-> 0]
FVal(key, val) ==
  [key |-> key, kind |-> "scalar", parts |-> <<>>, arr |-> <<>>, obj |-> <<>>, val |-> val]

Lit(s) == <<s>>
Tpl(e) == <<"", e, "">>

Obj(fields) ==
  [kind |-> "object", hasFor |-> FALSE, forObj |-> <<>>, hasIf |-> FALSE,
   ifCond |-> Num(1), fields |-> fields, arr |-> <<>>]
For(forObj, obj) == [obj EXCEPT !.hasFor = TRUE, !.forObj = forObj]
If(ifCond, obj) == [obj EXCEPT !.hasIf = TRUE, !.ifCond = ifCond]
Primitive == [Obj(<<>>) EXCEPT !.kind = "primitive"]
Arr(arr) == [Obj(<<>>) EXCEPT !.kind = "array", !.arr = arr]

(* Statements in sequence, an error of the first skipping the second:      *)
(* Push(r) is result.push(r); Concat(r, rest) is r's elements followed by   *)
(* rest's.                                                                  *)
Push(r) == IF r.st # "ok" THEN r ELSE Ok(<<r.val>>)

Concat(r, rest) ==
  IF r.st # "ok" THEN r
  ELSE IF rest.st # "ok" THEN rest
  ELSE Ok(r.val \o rest.val)

(* result += math.evaluate(parts[i], params) *)
Stringify(e) == IF e.st # "ok" THEN e ELSE Ok(ToString(e.val))

RECURSIVE ConcatParts(_, _, _)
ConcatParts(parts, i, params) ==
  IF i > Len(parts) THEN Ok("")
  ELSE Concat(IF i % 2 = 1 THEN Ok(parts[i]) ELSE Stringify(Evaluate(parts[i], params)),
              ConcatParts(parts, i + 1, params))

ExpandString(parts, params) ==
  IF Len(parts) = 3 /\ parts[1] = "" /\ parts[3] = ""
  THEN Evaluate(parts[2], params)
  ELSE ConcatParts(parts, 1, params)

RECURSIVE ExpandObject(_, _, _)
RECURSIVE ExpandArray(_, _, _)
RECURSIVE ExpandFields(_, _, _)
RECURSIVE LoopBody(_, _, _)

(* The value of one key, by the type of obj[key]. *)
ExpandField(f, params, maxLoopLength) ==
  CASE f.kind = "string" -> ExpandString(f.parts, params)
    [] f.kind = "array" -> ExpandArray(f.arr, params, maxLoopLength)
    [] f.kind = "object" -> ExpandObject(f.obj, params, maxLoopLength)
    [] OTHER -> Ok(f.val)

(* result[key] = r, with the other keys' values in rest *)
SetField(key, r, rest) ==
  IF r.st # "ok" THEN r
  ELSE IF rest.st # "ok" THEN rest
  ELSE Ok(Assign(rest.val, key, r.val))

ExpandFields(fields, params, maxLoopLength) ==
  IF Len(fields) = 0 THEN Ok(EmptyObj)
  ELSE SetField(Head(fields).key, ExpandField(Head(fields), params, maxLoopLength),
                ExpandFields(Tail(fields), params, maxLoopLength))

ExpandObject(obj, params, maxLoopLength) ==
  ExpandFields(obj.fields, params, maxLoopLength)

(* The loopVars of an element: each descriptor parsed against params. *)
RECURSIVE ParseLoopVars(_, _)
ParseLoopVars(forObj, params) ==
  IF Len(forObj) = 0 THEN Ok(<<>>)
  ELSE Concat(Push(ParseVariableRange(Head(forObj), params)),
              ParseLoopVars(Tail(forObj), params))

(* const loopParams = expandLoopVars(loopVars) *)
ExpandParsed(loopVars, params, maxLoopLength) ==
  IF loopVars.st # "ok" THEN loopVars
  ELSE ExpandLoopVars(loopVars.val, params, maxLoopLength)

(* if (loopParams.length > (this.moduleDef.maxLoopLength || 1000)) throw ... *)
CheckLength(loopParams, maxLoopLength) ==
  IF loopParams.st # "ok" THEN loopParams
  ELSE IF Len(loopParams.val) > MaxLoop(maxLoopLength) THEN Throw(LoopTooLargeError)
  ELSE loopParams

(* The loopParams the element's loop goes over: the parsed ranges expanded, *)
(* and the list refused when it is longer than the cap.                     *)
LoopParams(obj, params, maxLoopLength) ==
  CheckLength(ExpandParsed(ParseLoopVars(obj.forObj, params), params, maxLoopLength),
              maxLoopLength)

(* The condition c decides whether the expanded object is pushed. *)
PushWhen(c, push) ==
  IF c.st # "ok" THEN c
  ELSE IF ~Truthy(c.val) THEN Ok(<<>>)
  ELSE push

(* A bug PushIf could have: the `if` key is never looked at. *)
PushIf_IgnoresIf(obj, params, maxLoopLength) ==
  Push(ExpandObject(obj, params, maxLoopLength))

(* if (math.evaluate(obj['if'], params)) result.push(expandObject(obj, params)) *)
PushIf(obj, params, maxLoopLength) ==
  PushWhen(IF obj.hasIf THEN Evaluate(obj.ifCond, params) ELSE Ok(1),
           Push(ExpandObject(obj, params, maxLoopLength)))

LoopBody(obj, loopParams, maxLoopLength) ==
  IF Len(loopParams) = 0 THEN Ok(<<>>)
  ELSE Concat(PushIf(obj, Head(loopParams), maxLoopLength),
              LoopBody(obj, Tail(loopParams), maxLoopLength))

(* for (let loopParam of loopParams), once loopParams was computed *)
OverLoopParams(obj, loopParams, maxLoopLength) ==
  IF loopParams.st # "ok" THEN loopParams
  ELSE LoopBody(obj, loopParams.val, maxLoopLength)

(* What one element of the array adds to result.  `'for' in obj` throws a   *)
(* TypeError on a string or a number, before the typeof tests are reached.  *)
ExpandElement(obj, params, maxLoopLength) ==
  IF obj.kind = "primitive" THEN Throw(TypeError)
  ELSE IF obj.kind = "array" THEN Push(ExpandArray(obj.arr, params, maxLoopLength))
  ELSE IF obj.hasFor
  THEN OverLoopParams(obj, LoopParams(obj, params, maxLoopLength), maxLoopLength)
  ELSE PushIf(obj, params, maxLoopLength)

ExpandArray(arr, params, maxLoopLength) ==
  IF Len(arr) = 0 THEN Ok(<<>>)
  ELSE Concat(ExpandElement(Head(arr), params, maxLoopLength),
              ExpandArray(Tail(arr), params, maxLoopLength))

-----------------------------------------------------------------------------
(* The scene object registry (sceneObjs) and the instantiation of one       *)
(* expanded record: new sceneObjs[objData.type](this.scene, objData).  The  *)
(* live object is written as the record it was built from.                  *)

SceneObjs ==
  {"SingleRay", "Beam", "PointSource", "AngleSource", "Mirror", "ArcMirror",
   "ParabolicMirror", "CustomMirror", "IdealMirror", "BeamSplitter", "PlaneGlass",
   "CircleGlass", "Glass", "CustomGlass", "IdealLens", "SphericalLens",
   "CircleGrinGlass", "GrinGlass", "Blocker", "CircleBlocker", "Aperture",
   "DiffractionGrating", "Ruler", "Protractor", "Detector", "TextLabel",
   "LineArrow", "Drawing", "Handle", "CropBox", "ModuleObj"}

Instantiate(objData) ==
  IF "type" \in DOMAIN objData /\ objData.type \in SceneObjs
  THEN Ok(objData) ELSE Throw(TypeError)

-----------------------------------------------------------------------------
(* The module definitions of the scene (scene.modules), one for each        *)
(* behaviour of the engine:                                                 *)
(*   lens       two control points and one mirror between them;            *)
(*   grating    a parameter n, a derived variable, a loop over 0..n with an *)
(*              `if`, and a cap of 3 that n = 3 exceeds;                    *)
(*   fixed      no control point, absolute coordinates;                     *)
(*   prism      a second record of an unregistered type when x_1 # 0;       *)
(*   badvars    a vars template that names an undefined symbol;             *)
(*   varloop    a vars template whose loop exceeds the cap when x_1 >= 1;   *)
(*   badparams  a parameter descriptor without '=';                         *)
(*   sparkle    a stochastic template: one record with a field drawn from   *)
(*              `random()`.                                                 *)

PointTpl(i) ==
  Obj(<<FStr("x", Tpl(Var("x_" \o ToString(i)))), FStr("y", Tpl(Var("y_" \o ToString(i))))>>)

MirrorTpl == Obj(<<FStr("type", Lit("Mirror")), FObj("p1", PointTpl(1))>>)

Modules ==
  [lens |->
     [numPoints |-> 2, params |-> <<>>, vars |-> <<>>,
      objs |-> <<Obj(<<FStr("type", Lit("Mirror")), FObj("p1", PointTpl(1)),
                       FObj("p2", PointTpl(2))>>)>>,
      maxLoopLength |-> 0],
   grating |->
     [numPoints |-> 1,
      params |-> <<Desc("n", <<Num(1), Num(1), Num(3), Num(2)>>)>>,
      vars |-> <<FStr("k", Tpl(Add("x_1", 1)))>>,
      objs |-> <<MirrorTpl,
                 For(<<Desc("i", <<Num(0), Num(1), Var("n")>>)>>,
                     If(Neq("i", 1),
                        Obj(<<FStr("type", Lit("Blocker")), FStr("v", Tpl(Var("i"))),
                              FStr("k", Tpl(Var("k")))>>)))>>,
      maxLoopLength |-> 3],
   fixed |->
     [numPoints |-> 0, params |-> <<>>, vars |-> <<>>,
      objs |-> <<Obj(<<FStr("type", Lit("Mirror")), FVal("v", 1)>>)>>,
      maxLoopLength |-> 0],
   prism |->
     [numPoints |-> 1, params |-> <<>>, vars |-> <<>>,
      objs |-> <<MirrorTpl,
                 If(Neq("x_1", 0), Obj(<<FStr("type", Lit("Prism")), FVal("v", 0)>>))>>,
      maxLoopLength |-> 0],
   badvars |->
     [numPoints |-> 1, params |-> <<>>,
      vars |-> <<FStr("a", Tpl(Var("q")))>>,
      objs |-> <<MirrorTpl>>,
      maxLoopLength |-> 0],
   varloop |->
     [numPoints |-> 1, params |-> <<>>,
      vars |-> <<FArr("a", <<For(<<Desc("j", <<Num(0), Num(1), Var("x_1")>>)>>,
                                 Obj(<<FStr("v", Tpl(Var("j")))>>))>>)>>,
      objs |-> <<MirrorTpl>>,
      maxLoopLength |-> 1],
   badparams |->
     [numPoints |-> 1, params |-> <<NoEq("n")>>, vars |-> <<>>,
      objs |-> <<MirrorTpl>>,
      maxLoopLength |-> 0],
   sparkle |->
     [numPoints |-> 1, params |-> <<>>, vars |-> <<>>,
      objs |-> <<Obj(<<FStr("type", Lit("Mirror")), FObj("p1", PointTpl(1)),
                       FStr("v", Tpl(Rand))>>)>>,
      maxLoopLength |-> 0]]

(* The modules whose templates call `random()`. *)
Stochastic == {"sparkle"}

(* The modules an instance of Spec is built from.  None of them draws from  *)
(* the random-number stream, which Spec therefore leaves where it is.       *)
ModuleNames == (DOMAIN Modules) \ Stochastic

-----------------------------------------------------------------------------
(* The ModuleObj.  self is the record of its fields; a handler gives        *)
(* [self, exit, calls, atCall]: the fields when it ends, how it ends, the   *)
(* number of expandObjs calls it made and this.objs at the last of them.    *)

Out(self, ex, n, atCall) == [self |-> self, exit |-> ex, calls |-> n, atCall |-> atCall]

point(x, y) == [x |-> x, y |-> y]

(* The initial parameter values: each descriptor parsed with {} and its     *)
(* default stored; a descriptor that fails throws, with the values stored   *)
(* so far left in this.params.                                              *)
RECURSIVE InitParams(_, _)
InitParams(descs, acc) ==
  IF Len(descs) = 0 THEN Ok(acc)
  ELSE LET parsed == ParseVariableRange(Head(descs), EmptyObj)
       IN  IF parsed.st # "ok" THEN [st |-> "throw", val |-> acc]
           ELSE InitParams(Tail(descs), Assign(acc, parsed.val.name, parsed.val.defaultVal))

(* A bug InitPoints could have: one point too many. *)
InitPoints_OneMore(numPoints) == [i \in 1 .. numPoints + 1 |-> point(0, 0)]

(* for (i = 0; i < numPoints; i++) this.points.push(geometry.point(0, 0)) *)
InitPoints(numPoints) == [i \in 1 .. numPoints |-> point(0, 0)]

(* fullParams: the params, then x_i and y_i of each control point, then     *)
(* `random`, the scene's random-number stream (fullParams['random'] =       *)
(* this.scene.rng), written as the value its call returns.                  *)
FullParams(self) ==
  LET n == Len(self.points)
      xs == { "x_" \o ToString(i) : i \in 1 .. n }
      ys == { "y_" \o ToString(i) : i \in 1 .. n }
      ix(k) == CHOOSE i \in 1 .. n : k \in {"x_" \o ToString(i), "y_" \o ToString(i)}
  IN  [k \in (DOMAIN self.params) \cup xs \cup ys \cup {"random"} |->
         IF k = "random" THEN rng
         ELSE IF k \in xs THEN self.points[ix(k)].x
         ELSE IF k \in ys THEN self.points[ix(k)].y
         ELSE self.params[k]]

(* Object.assign(fullParams, varParams) *)
ObjectAssign(target, src) ==
  [k \in (DOMAIN target) \cup (DOMAIN src) |-> IF k \in DOMAIN src THEN src[k] ELSE target[k]]

(* The two halves of expandObjs: the vars template expanded over fullParams *)
(* (outside the try), and the objs templates expanded and instantiated      *)
(* (inside it).                                                             *)
VarParams(self) ==
  LET moduleDef == Modules[self.module]
  IN  ExpandObject(Obj(moduleDef.vars), FullParams(self), moduleDef.maxLoopLength)

RECURSIVE InstantiateAll(_)
InstantiateAll(expandedObjs) ==
  IF Len(expandedObjs) = 0 THEN Ok(<<>>)
  ELSE Concat(Push(Instantiate(Head(expandedObjs))), InstantiateAll(Tail(expandedObjs)))

(* expandedObjs.map(objData => new sceneObjs[objData.type](this.scene, objData)) *)
MapInstantiate(expandedObjs) ==
  IF expandedObjs.st # "ok" THEN expandedObjs ELSE InstantiateAll(expandedObjs.val)

TryExpand(self, fullParams) ==
  MapInstantiate(ExpandArray(Modules[self.module].objs, fullParams,
                             Modules[self.module].maxLoopLength))

(* A bug the try block could have: the new objects are added to the old. *)
AfterTry_AppendsObjs(self, tried) ==
  IF tried.st = "ok" THEN [self EXCEPT !.error = Null, !.objs = self.objs \o tried.val]
  ELSE IF tried.st = "throw" THEN [self EXCEPT !.error = tried.val]
  ELSE [self EXCEPT !.error = Null]

(* A bug the catch could have: the failure also empties this.objs. *)
AfterTry_ClearsObjs(self, tried) ==
  IF tried.st = "ok" THEN [self EXCEPT !.error = Null, !.objs = tried.val]
  ELSE [self EXCEPT !.error = tried.val, !.objs = <<>>]

(* this.error = null; try { ... this.objs = ... } catch (e) { this.error = e } *)
AfterTry(self, tried) ==
  IF tried.st = "ok" THEN [self EXCEPT !.error = Null, !.objs = tried.val]
  ELSE IF tried.st = "throw" THEN [self EXCEPT !.error = tried.val]
  ELSE [self EXCEPT !.error = Null]

(* expandObjs returns once the try block ended with `tried`, thrown or not. *)
Caught(self, tried) ==
  [self |-> AfterTry(self, tried), exit |-> IF tried.st = "hang" THEN "hang" ELSE "return"]

(* expandObjs from Object.assign on: an error of the vars template has left *)
(* through the caller, with the instance untouched.                         *)
AfterVars(self, varParams) ==
  IF varParams.st # "ok" THEN [self |-> self, exit |-> varParams.st]
  ELSE Caught(self, TryExpand(self, ObjectAssign(FullParams(self), varParams.val)))

(* expandObjs: [self, exit].  this.points.length throws on a null points. *)
ExpandObjs(self) ==
  IF self.pointsIsNull THEN [self |-> self, exit |-> "throw"]
  ELSE AfterVars(self, VarParams(self))

(* A handler that ends with an expandObjs call, its n-th. *)
Ended(e, n, atCall) == Out(e.self, e.exit, n, atCall)

ThenExpand(self, n) == Ended(ExpandObjs(self), n, self.objs)

(* constructor(scene, jsonObj): the fields come from jsonObj, and from      *)
(* serializableDefaults where jsonObj has none (points and params null).    *)
Constructor(jsonObj) ==
  IF jsonObj.module = Null
  THEN Out([module |-> Null, points |-> <<>>, pointsIsNull |-> ~jsonObj.hasPoints,
            params |-> jsonObj.params, notDone |-> jsonObj.notDone, objs |-> <<>>,
            error |-> Null], "return", 0, <<>>)
  ELSE LET moduleDef == Modules[jsonObj.module]
           points == IF jsonObj.hasPoints THEN jsonObj.points
                     ELSE InitPoints(moduleDef.numPoints)
           params == IF jsonObj.hasParams THEN Ok(jsonObj.params)
                     ELSE InitParams(moduleDef.params, EmptyObj)
           self == [module |-> jsonObj.module, points |-> points, pointsIsNull |-> FALSE,
                    params |-> params.val, notDone |-> jsonObj.notDone, objs |-> <<>>,
                    error |-> Null]
       IN  IF params.st # "ok" THEN Out(self, "throw", 0, <<>>)
           ELSE ThenExpand(self, 1)

(* for (i in this.points) { this.points[i].x += diffX; this.points[i].y += diffY } *)
Translate(points, diffX, diffY) ==
  [i \in 1 .. Len(points) |-> point(points[i].x + diffX, points[i].y + diffY)]

(* A bug move could have: the points move and the objs stay. *)
Move_KeepsObjs(self, diffX, diffY) ==
  IF self.pointsIsNull THEN Out(self, "throw", 0, <<>>)
  ELSE IF Len(self.points) = 0 THEN Out(self, "return", 0, <<>>)
  ELSE Out([self EXCEPT !.points = Translate(self.points, diffX, diffY)], "return", 0, <<>>)

(* move(diffX, diffY) *)
Move(self, diffX, diffY) ==
  IF self.pointsIsNull THEN Out(self, "throw", 0, <<>>)
  ELSE IF Len(self.points) = 0 THEN Out(self, "return", 0, <<>>)
  ELSE ThenExpand([self EXCEPT !.points = Translate(self.points, diffX, diffY)], 1)

(* onConstructMouseDown(mouse, ctrl, shift), with mousePos the snapped       *)
(* position and addingModuleName the editor's module being added.           *)
OnConstructMouseDown(self, mousePos, addingModuleName) ==
  LET fresh == ~self.notDone
      changed == fresh /\ self.module # addingModuleName
      params == IF changed THEN InitParams(Modules[addingModuleName].params, EmptyObj)
                ELSE Ok(self.params)
      module == IF changed THEN addingModuleName ELSE self.module
  IN  IF params.st # "ok"
      THEN Out([self EXCEPT !.notDone = TRUE, !.module = module, !.params = params.val],
               "throw", 0, <<>>)
      ELSE LET s1 == IF fresh
                     THEN [self EXCEPT !.notDone = TRUE, !.module = module,
                                       !.params = params.val, !.points = <<>>,
                                       !.pointsIsNull = FALSE, !.objs = <<>>]
                     ELSE self
               numPoints == Modules[module].numPoints
           IN  IF s1.pointsIsNull THEN Out(s1, "throw", 0, <<>>)
               ELSE LET s2 == IF Len(s1.points) < numPoints
                              THEN [s1 EXCEPT !.points = Append(s1.points, point(mousePos.x, mousePos.y))]
                              ELSE s1
                    IN  IF Len(s2.points) = numPoints
                        THEN ThenExpand([s2 EXCEPT !.notDone = FALSE], 1)
                        ELSE Out(s2, "return", 0, <<>>)

(* onConstructMouseUp: reads this.points.length, changes nothing *)
OnConstructMouseUp(self) ==
  Out(self, IF self.pointsIsNull THEN "throw" ELSE "return", 0, <<>>)

(* onDrag's last statement, this.expandObjs(), after this.move(...) *)
ExpandAgain(moved) ==
  IF moved.exit # "return" THEN moved
  ELSE ThenExpand(moved.self, moved.calls + 1)

(* onDrag(mouse, dragContext, ctrl, shift): dragContext.part = 1 drags the  *)
(* control point dragContext.index to mousePos; part = 0 moves the module   *)
(* by mousePos - dragContext.mousePos1 and then expands once more.          *)
OnDrag(self, mousePos, dragContext) ==
  IF dragContext.part = 1
  THEN ThenExpand([self EXCEPT !.points[dragContext.index] = point(mousePos.x, mousePos.y)], 1)
  ELSE ExpandAgain(Move(self, mousePos.x - dragContext.mousePos1.x,
                        mousePos.y - dragContext.mousePos1.y))

(* populateObjBar: the names of the number boxes it creates (one for each   *)
(* parameter parsed before the first that fails), and its effect on         *)
(* this.error.                                                              *)
RECURSIVE ParsedNames(_)
ParsedNames(descs) ==
  IF Len(descs) = 0 THEN {}
  ELSE LET parsed == ParseVariableRange(Head(descs), EmptyObj)
       IN  IF parsed.st # "ok" THEN {} ELSE {parsed.val.name} \cup ParsedNames(Tail(descs))

PopulateObjBar(self) ==
  IF self.notDone THEN self
  ELSE IF \E i \in 1 .. Len(Modules[self.module].params) :
            ParseVariableRange(Modules[self.module].params[i], EmptyObj).st # "ok"
  THEN [self EXCEPT !.error = RangeParseError]
  ELSE self

(* The number box's callback: obj.params[parsed.name] = value; obj.expandObjs() *)
SetParam(self, name, v) ==
  ThenExpand([self EXCEPT !.params = Assign(self.params, name, v)], 1)

(* scene.removeObj(index) *)
RemoveObj(objs, index) ==
  [i \in 1 .. Len(objs) - 1 |-> IF i < index THEN objs[i] ELSE objs[i + 1]]

(* scene.objs.indexOf(obj), from 1 *)
IndexOf(objs, obj) == CHOOSE i \in 1 .. Len(objs) : objs[i] = obj

(* The ModuleObj itself as a member of scene.objs. *)
This == [type |-> "ModuleObj"]

(* A bug demodulize could have: the module object stays in the scene. *)
Demodulize_KeepsModule(objs, self) == objs \o self.objs

(* demodulize(): scene.objs afterwards *)
Demodulize(objs, self) == RemoveObj(objs, IndexOf(objs, This)) \o self.objs


-----------------------------------------------------------------------------
(* getError.  What it returns is written [kind, val]: "error" with          *)
(* this.error, "report" with the lines that follow "In expanded objects:",  *)
(* or "null".  A line `obj.objs[i] type: error` is written as the record of *)
(* its three parts, with the index counted from 0 as `for (let i in         *)
(* this.objs)` counts it.  An expanded object's own getError gives the      *)
(* error the object carries, null for an object without one.                *)

ObjGetError(obj) == IF "error" \in DOMAIN obj THEN obj.error ELSE Null

ErrorLine(i, obj) == [index |-> i, type |-> obj.type, error |-> ObjGetError(obj)]

(* A bug the loop could have: lines numbered by position in the report. *)
PushError_Renumbered(errors, i, obj) ==
  IF ObjGetError(obj) # Null THEN Append(errors, ErrorLine(Len(errors), obj)) ELSE errors

(* let error = this.objs[i].getError(); if (error) errors.push(...) *)
PushError(errors, i, obj) ==
  IF ObjGetError(obj) # Null THEN Append(errors, ErrorLine(i, obj)) ELSE errors

RECURSIVE CollectErrors(_, _, _)
CollectErrors(objs, i, errors) ==
  IF i >= Len(objs) THEN errors
  ELSE CollectErrors(objs, i + 1, PushError(errors, i, objs[i + 1]))

Report(errors) ==
  IF Len(errors) > 0 THEN [kind |-> "report", val |-> errors]
  ELSE [kind |-> "null", val |-> <<>>]

GetError(self) ==
  IF self.error # Null THEN [kind |-> "error", val |-> self.error]
  ELSE Report(CollectErrors(self.objs, 0, <<>>))

-----------------------------------------------------------------------------
(* Idle values of the variables a specification does not use.               *)

NoInst ==
  [module |-> Null, points |-> <<>>, pointsIsNull |-> TRUE, params |-> EmptyObj,
   notDone |-> FALSE, objs |-> <<>>, error |-> Null]

MainIdle ==
  /\ stage = "none" /\ inst = NoInst /\ scene = <<>> /\ lastEvent = "none"
  /\ exit = "return" /\ calls = 0 /\ objsAtCall = <<>> /\ lastArgs = <<>>

ArrIdle ==
  /\ arrIn = [arr |-> <<>>, params |-> EmptyObj, maxLoopLength |-> 0]
  /\ arrOut = [st |-> "idle"]

LoopIdle ==
  /\ loopVar = [name |-> "", start |-> 0, step |-> 0, end |-> 0]
  /\ loopMax = 0 /\ pc = "idle" /\ value = 0 /\ pushed = 0

TwiceIdle == rng = 0 /\ runs = <<>>

ErrIdle == report = [kind |-> "idle"]

-----------------------------------------------------------------------------
(* Spec: one ModuleObj from its construction to its demodulization, in a    *)
(* scene that holds two other objects.  The editor sends placement clicks   *)
(* only to the object under construction, and drags, moves, parameter       *)
(* changes and the demodulize button only to a placed one.                  *)

MaxCoord == 1
MaxParam == 3

Pos == [x : 0 .. MaxCoord, y : 0 .. MaxCoord]

Others == <<[type |-> "Ruler", v |-> 0], [type |-> "Detector", v |-> 0]>>

ParamNames(m) == { Modules[m].params[i].name : i \in 1 .. Len(Modules[m].params) }

(* The persisted data a ModuleObj is constructed from: the editor's new,    *)
(* empty object; or a module name, with or without its control points and   *)
(* with or without parameter values.                                        *)
BlankJson ==
  [module |-> Null, hasPoints |-> FALSE, points |-> <<>>, hasParams |-> FALSE,
   params |-> EmptyObj, notDone |-> FALSE]

JsonParams(m) ==
  { [hasParams |-> FALSE, params |-> EmptyObj] }
    \cup { [hasParams |-> TRUE, params |-> ps] : ps \in [ParamNames(m) -> 1 .. MaxParam] }

JsonPoints(m) ==
  { [hasPoints |-> FALSE, points |-> <<>>] }
    \cup { [hasPoints |-> TRUE, points |-> [i \in 1 .. Modules[m].numPoints |-> p]] :
             p \in Pos }

JsonObjs ==
  {BlankJson} \cup UNION {
      { [module |-> m, hasPoints |-> jq.hasPoints, points |-> jq.points,
         hasParams |-> jp.hasParams, params |-> jp.params, notDone |-> FALSE] :
          jq \in JsonPoints(m), jp \in JsonParams(m) } : m \in ModuleNames }

InsertAt(objs, k, obj) == SubSeq(objs, 1, k) \o <<obj>> \o SubSeq(objs, k + 1, Len(objs))

InGrid(points) == \A i \in 1 .. Len(points) : points[i] \in Pos

Live == stage = "live"
Placed == Live /\ inst.module # Null /\ ~inst.notDone

Init ==
  /\ stage = "none" /\ inst = NoInst /\ scene = Others /\ lastEvent = "none"
  /\ exit = "return" /\ calls = 0 /\ objsAtCall = <<>> /\ lastArgs = <<>>
  /\ ArrIdle /\ LoopIdle /\ TwiceIdle /\ ErrIdle

Observed(out, event, args) ==
  /\ inst' = out.self
  /\ exit' = out.exit
  /\ calls' = out.calls
  /\ objsAtCall' = out.atCall
  /\ lastEvent' = event
  /\ lastArgs' = args

Observe(out, event) == Observed(out, event, <<>>)

HandledWith(out, event, args) ==
  /\ Observed(out, event, args)
  /\ stage' = IF out.exit = "hang" THEN "hung" ELSE stage
  /\ UNCHANGED <<scene, arrVars, loopState, twiceVars, errVars>>

Handled(out, event) == HandledWith(out, event, <<>>)

(* The constructor ended with `out`; the object it returned is put into    *)
(* scene.objs after the k-th.                                               *)
Constructed(out, k) ==
  /\ Observe(out, "constructor")
  /\ stage' = CASE out.exit = "return" -> "live"
                [] out.exit = "throw" -> "failed"
                [] OTHER -> "hung"
  /\ scene' = IF out.exit = "return" THEN InsertAt(scene, k, This) ELSE scene

(* new ModuleObj(scene, jsonObj) *)
Construct ==
  /\ stage = "none"
  /\ \E jsonObj \in JsonObjs, k \in 0 .. Len(scene) : Constructed(Constructor(jsonObj), k)
  /\ UNCHANGED <<arrVars, loopState, twiceVars, errVars>>

ConstructMouseDown ==
  /\ Live /\ (inst.module = Null \/ inst.notDone)
  /\ \E mousePos \in Pos,
        addingModuleName \in (IF inst.module = Null THEN ModuleNames ELSE {inst.module}) :
       Handled(OnConstructMouseDown(inst, mousePos, addingModuleName), "onConstructMouseDown")

ConstructMouseUp ==
  /\ Live /\ lastEvent = "onConstructMouseDown"
  /\ Handled(OnConstructMouseUp(inst), "onConstructMouseUp")

DragPoint ==
  /\ Placed
  /\ \E index \in 1 .. Len(inst.points), mousePos \in Pos :
       Handled(OnDrag(inst, mousePos, [part |-> 1, index |-> index, mousePos1 |-> mousePos]),
               "onDrag")

(* The module is grabbed at its first control point (only the difference    *)
(* mousePos - mousePos1 enters onDrag) and stays on the grid.                *)
DragModule ==
  /\ Placed /\ Len(inst.points) # 0 /\ Len(inst.objs) # 0
  /\ \E mousePos \in Pos :
       LET mousePos1 == inst.points[1]
       IN  /\ InGrid(Translate(inst.points, mousePos.x - mousePos1.x, mousePos.y - mousePos1.y))
           /\ Handled(OnDrag(inst, mousePos,
                             [part |-> 0, index |-> 0, mousePos1 |-> mousePos1]), "onDrag")

MoveModule ==
  /\ Placed
  /\ \E diffX \in (0 - 1) .. 1, diffY \in (0 - 1) .. 1 :
       /\ InGrid(Translate(inst.points, diffX, diffY))
       /\ HandledWith(Move(inst, diffX, diffY), "move", <<diffX, diffY>>)

ChangeParam ==
  /\ Placed
  /\ \E name \in ParsedNames(Modules[inst.module].params), v \in 1 .. MaxParam :
       Handled(SetParam(inst, name, v), "setParam")

ShowObjBar ==
  /\ Live /\ inst.module # Null
  /\ Handled(Out(PopulateObjBar(inst), "return", 0, <<>>), "populateObjBar")

DemodulizeModule ==
  /\ Placed
  /\ scene' = Demodulize(scene, inst)
  /\ stage' = "demodulized"
  /\ Observe(Out(inst, "return", 0, <<>>), "demodulize")
  /\ UNCHANGED <<arrVars, loopState, twiceVars, errVars>>

Next ==
  \/ Construct
  \/ ConstructMouseDown
  \/ ConstructMouseUp
  \/ DragPoint
  \/ DragModule
  \/ MoveModule
  \/ ChangeParam
  \/ ShowObjBar
  \/ DemodulizeModule

Spec == Init /\ [][Next]_vars

-----------------------------------------------------------------------------
(* What the claims about the instance speak of.                             *)

Assigned == stage # "none" /\ inst.module # Null
NumPoints == Modules[inst.module].numPoints
Complete == Placed

ExpansionEvents == {"constructor", "onConstructMouseDown", "move", "onDrag", "setParam"}

(* The expansion of (moduleDefinition, controlPoints, paramValues): the     *)
(* vars template over the control points and parameters, then the object    *)
(* templates over both, each record instantiated.                           *)
ExpansionWith(self, varParams) ==
  IF varParams.st # "ok" THEN varParams
  ELSE TryExpand(self, ObjectAssign(FullParams(self), varParams.val))

Expansion(self) == ExpansionWith(self, VarParams(self))

(* C1: whatever the module definition, every event that expands the module *)
(* (construction, a placement click, a move, a drag, a parameter change)   *)
(* returns normally: no error leaves the handler.                          *)
C1_NoErrorEscapes ==
  lastEvent \in ExpansionEvents => exit # "throw"

(* C4: whenever the instance is complete and has no recorded error, its    *)
(* objs are the expansion of its current module definition, control points *)
(* and parameter values.                                                   *)
C4_ObjsAreExpansion ==
  (Complete /\ inst.error = Null) => Expansion(inst) = Ok(inst.objs)

(* C5: for a module with numPoints >= 1, every placement click appends     *)
(* exactly one control point; the instance is incomplete while the count   *)
(* is below numPoints and complete once it reaches it; and expandObjs runs *)
(* at the click that reaches numPoints, once, and at no other click.       *)
C5_PlacementProtocol ==
  [][(lastEvent' = "onConstructMouseDown" /\ Modules[inst'.module].numPoints >= 1) =>
       LET before == IF inst.notDone THEN Len(inst.points) ELSE 0
           numPoints == Modules[inst'.module].numPoints
       IN  /\ Len(inst'.points) = before + 1
           /\ inst'.notDone = (Len(inst'.points) < numPoints)
           /\ calls' = IF Len(inst'.points) = numPoints THEN 1 ELSE 0]_vars

(* C6 as claimed: the number of control points of an instance is 0 or the  *)
(* numPoints of its module definition, in every state.                     *)
C6_ZeroOrNumPoints ==
  Assigned => Len(inst.points) \in {0, NumPoints}

(* C6 as amended: the number of control points is between 0 and numPoints  *)
(* in every state, and is numPoints whenever no placement is in progress.  *)
C6_AtMostNumPoints ==
  Assigned => /\ Len(inst.points) \in 0 .. NumPoints
              /\ ~inst.notDone => Len(inst.points) = NumPoints

(* A two-point module after the first of its two placement clicks. *)
C6_Witness ==
  /\ Assigned /\ lastEvent = "onConstructMouseDown" /\ exit = "return"
  /\ inst.notDone /\ NumPoints = 2 /\ Len(inst.points) = 1

(* C7: when an expandObjs call returns and the expansion of the object     *)
(* templates, or the instantiation of an expanded record, has failed in    *)
(* it, the instance holds an error and its objs are the list it held       *)
(* before the call.                                                        *)
C7_FailureKeepsObjs ==
  (calls > 0 /\ exit = "return" /\ Expansion(inst).st = "throw") =>
    inst.error # Null /\ inst.objs = objsAtCall

(* A record of an unregistered type, in a module that held one mirror. *)
C7_Witness ==
  /\ calls > 0 /\ exit = "return" /\ inst.module = "prism"
  /\ Expansion(inst) = Throw(TypeError)
  /\ inst.error = TypeError /\ Len(inst.objs) = 1 /\ inst.objs = objsAtCall

(* C8: a demodulize step leaves the scene without the module object, with  *)
(* every other object it held still there, unchanged and in order, and     *)
(* with each of the module's objs, once, after them.                       *)
C8_PureRelocation ==
  [][lastEvent' = "demodulize" =>
       LET NotThis(o) == o # This
           others == SelectSeq(scene, NotThis)
       IN  /\ \A i \in 1 .. Len(scene') : scene'[i] # This
           /\ Len(scene') = Len(scene) - 1 + Len(inst.objs)
           /\ SubSeq(scene', 1, Len(others)) = others
           /\ SubSeq(scene', Len(others) + 1, Len(scene')) = inst.objs]_vars

(* A module of two objects demodulized: the two other objects, then its two. *)
C8_Witness ==
  /\ stage = "demodulized" /\ Len(inst.objs) = 2 /\ Len(scene) = 4
  /\ scene[1] = Others[1] /\ scene[2] = Others[2]
  /\ scene[3] = inst.objs[1] /\ scene[4] = inst.objs[2]


(* The objs of `self` are the expansion, where the expansion gives a result. *)
Rederived(self, expansion) == expansion.st = "ok" => self.objs = expansion.val

MoveEffect(diffX, diffY) ==
  IF Len(inst.points) = 0 THEN inst' = inst /\ calls' = 0
  ELSE /\ Len(inst'.points) = Len(inst.points)
       /\ \A i \in 1 .. Len(inst.points) :
            /\ inst'.points[i].x = inst.points[i].x + diffX
            /\ inst'.points[i].y = inst.points[i].y + diffY
       /\ inst'.params = inst.params
       /\ inst'.module = inst.module
       /\ calls' = 1
       /\ Rederived(inst', Expansion(inst'))

(* C12: a move by (diffX, diffY) of an instance with control points adds   *)
(* (diffX, diffY) to every control point, keeps the parameter values and   *)
(* the module, and runs the expansion once, over the translated points, so *)
(* that the objs are the expansion of the translated instance; a move of   *)
(* an instance without control points changes no field and expands         *)
(* nothing.                                                                *)
C12_MoveTranslatesPoints ==
  [][lastEvent' = "move" => MoveEffect(lastArgs'[1], lastArgs'[2])]_vars

C12_Witness ==
  /\ lastEvent = "move" /\ lastArgs # <<0, 0>> /\ exit = "return" /\ calls = 1
  /\ Len(inst.points) >= 1 /\ inst.error = Null
  /\ Len(inst.objs) >= 1 /\ objsAtCall # inst.objs
  /\ inst.objs[1].p1 = inst.points[1]

-----------------------------------------------------------------------------
(* SpecArray: expandArray applied once to an array of two elements, a plain *)
(* object followed by an element with a `for` and / or an `if` key, under   *)
(* every cap and every small range.                                         *)

MaxStart == 1
MaxStep == 2
MaxEnd == 3
MaxCap == 3

ArrSteps == {0 - 1} \cup (0 .. MaxStep)

ArrDescs(name, starts) ==
  { Desc(name, <<Num(s), Num(t), Num(e)>>) :
      s \in starts, t \in ArrSteps, e \in 0 .. MaxEnd }

ArrForObjs ==
  { <<d>> : d \in ArrDescs("i", 0 .. MaxStart) }
    \cup { <<d1, d2>> : d1 \in ArrDescs("i", 0 .. MaxStart), d2 \in ArrDescs("j", {0}) }

ArrIfConds == { Neq("i", 1), Var("j"), Bad }

ArrPlain == Obj(<<FStr("type", Lit("Mirror")), FVal("v", 7)>>)

ArrBody ==
  Obj(<<FStr("type", Lit("Blocker")), FStr("i", Tpl(Var("i"))), FStr("j", Tpl(Var("j")))>>)

ArrElems ==
  { For(f, ArrBody) : f \in ArrForObjs }
    \cup { For(f, If(c, ArrBody)) : f \in ArrForObjs, c \in ArrIfConds }
    \cup { If(c, ArrBody) : c \in ArrIfConds }
    \cup { Primitive, Arr(<<ArrBody>>) }

ArrParams == { [i |-> a, j |-> b] : a \in 0 .. 1, b \in 0 .. 1 }

ArrCaps == 0 .. MaxCap

ArrInit ==
  /\ arrIn \in [arr : { <<ArrPlain, e>> : e \in ArrElems }, params : ArrParams,
                maxLoopLength : ArrCaps]
  /\ arrOut = [st |-> "pending"]
  /\ MainIdle /\ LoopIdle /\ TwiceIdle /\ ErrIdle

(* result = this.expandArray(arr, params); loopParams is what the element's *)
(* loop went over (a list of params alone when the element has no `for`).   *)
CallExpandArray ==
  /\ arrOut.st = "pending"
  /\ LET e == arrIn.arr[2]
     IN  arrOut' =
           [st |-> "done",
            result |-> ExpandArray(arrIn.arr, arrIn.params, arrIn.maxLoopLength),
            loopParams |-> IF e.hasFor
                           THEN LoopParams(e, arrIn.params, arrIn.maxLoopLength)
                           ELSE Ok(<<arrIn.params>>)]
  /\ UNCHANGED <<arrIn, mainVars, loopState, twiceVars, errVars>>

ArrNext == CallExpandArray

SpecArray == ArrInit /\ [][ArrNext]_vars

-----------------------------------------------------------------------------
(* What the claims about expandArray speak of, stated without the code:     *)
(* the element count of a range start:step:end (the values start,           *)
(* start+step, ... that are <= end), and the Cartesian product of ranges.   *)

ArrElem == arrIn.arr[2]
ArrLoopVars == ParseLoopVars(ArrElem.forObj, arrIn.params).val
ArrCap == MaxLoop(arrIn.maxLoopLength)

InfiniteRange(lv) == lv.start <= lv.end /\ lv.step <= 0

ElementCount(lv) ==
  IF lv.start > lv.end THEN 0 ELSE (lv.end - lv.start) \div lv.step + 1

CountExceeds(lv, cap) ==
  IF lv.start > lv.end THEN FALSE
  ELSE IF lv.step <= 0 THEN TRUE
  ELSE ElementCount(lv) > cap

RECURSIVE Product(_)
Product(lvs) ==
  IF Len(lvs) = 0 THEN 1 ELSE ElementCount(Head(lvs)) * Product(Tail(lvs))

ProductExceeds(lvs, cap) ==
  IF \E k \in 1 .. Len(lvs) : lvs[k].start > lvs[k].end THEN FALSE
  ELSE IF \E k \in 1 .. Len(lvs) : InfiniteRange(lvs[k]) THEN TRUE
  ELSE Product(lvs) > cap

(* The idx0-th (from 0) binding of the product, first range outermost. *)
RECURSIVE Binding(_, _, _)
Binding(lvs, params, idx0) ==
  IF Len(lvs) = 0 THEN params
  ELSE LET inner == Product(Tail(lvs))
       IN  Assign(Binding(Tail(lvs), params, idx0 % inner), Head(lvs).name,
                  Head(lvs).start + (idx0 \div inner) * Head(lvs).step)

Bindings(lvs, params) ==
  [idx \in 1 .. Product(lvs) |-> Binding(lvs, params, idx - 1)]

(* C2: whenever the element count of a single range of a `for` element, or *)
(* the size of the Cartesian product of its ranges, exceeds the cap        *)
(* (maxLoopLength, 1000 when absent), expandArray fails with the           *)
(* loop-too-large error and returns nothing.                               *)
C2_LoopCapEnforced ==
  (arrOut.st = "done" /\ ArrElem.kind = "object" /\ ArrElem.hasFor) =>
    (((\E k \in 1 .. Len(ArrLoopVars) : CountExceeds(ArrLoopVars[k], ArrCap))
        \/ ProductExceeds(ArrLoopVars, ArrCap))
      => arrOut.result = Throw(LoopTooLargeError))

(* C9: for a `for` element whose ranges all have step > 0 and that stays   *)
(* within the cap (every range's element count, and the product), the      *)
(* bindings expandArray iterates are exactly the Cartesian product of the  *)
(* ranges' inclusive sequences, first range outermost.                     *)
C9_CartesianBindings ==
  (/\ arrOut.st = "done" /\ ArrElem.kind = "object" /\ ArrElem.hasFor
   /\ \A k \in 1 .. Len(ArrLoopVars) :
        ArrLoopVars[k].step > 0 /\ ElementCount(ArrLoopVars[k]) <= ArrCap
   /\ Product(ArrLoopVars) <= ArrCap)
  => arrOut.loopParams = Ok(Bindings(ArrLoopVars, arrIn.params))

(* C10: an element with an `if` key contributes exactly one expanded       *)
(* element for each binding context (each loop combination, or the current *)
(* context when it has no `for`) in which its condition is truthy, in      *)
(* order, and none for the others.                                         *)
C10_IfFilter ==
  (arrOut.st = "done" /\ ArrElem.kind = "object" /\ ArrElem.hasIf
     /\ arrOut.result.st = "ok") =>
    LET Keep(b) == Truthy(Evaluate(ArrElem.ifCond, b).val)
        kept == SelectSeq(arrOut.loopParams.val, Keep)
        elems == [k \in 1 .. Len(kept) |->
                    ExpandObject(ArrElem, kept[k], arrIn.maxLoopLength).val]
    IN  /\ Len(arrOut.result.val) = 1 + Len(kept)
        /\ \A k \in 1 .. Len(kept) : arrOut.result.val[k + 1] = elems[k]

(* for i=0:1:2 with if i!=1: the elements for i=0 and i=2, in that order. *)
C10_Witness ==
  /\ arrOut.st = "done"
  /\ ArrElem = For(<<Desc("i", <<Num(0), Num(1), Num(2)>>)>>, If(Neq("i", 1), ArrBody))
  /\ arrOut.result.st = "ok"
  /\ Len(arrOut.result.val) = 3
  /\ arrOut.result.val[2].i = 0
  /\ arrOut.result.val[3].i = 2

-----------------------------------------------------------------------------
(* SpecLoop: expandLoopVars on one loop variable (loopVars1 is empty, so    *)
(* each iteration pushes one object), one action per step of its code: the  *)
(* length check, the loop's test, its body and increment, the return.       *)
(*                                                                          *)
(* The state is kept finite the way the run itself is: below -ValueFloor    *)
(* `value += step` no longer changes value (a double's addition stops       *)
(* changing it once |value| reaches 2^53), and pushed stops counting        *)
(* result.length at MaxPushed.  Neither touches the loop's guard.           *)

ValueFloor == 6
MaxPushed == 8

LoopInit ==
  /\ loopVar \in [name : {"i"}, start : (0 - 1) .. MaxStart, step : ArrSteps,
                  end : 0 .. MaxEnd]
  /\ loopMax \in ArrCaps
  /\ pc = "check" /\ value = 0 /\ pushed = 0
  /\ MainIdle /\ ArrIdle /\ TwiceIdle /\ ErrIdle

(* const loopLength = ...; if (loopLength > cap) throw ...; value = start *)
CheckLoopLength ==
  /\ pc = "check"
  /\ IF LoopLengthExceeds(loopVar, loopMax)
     THEN pc' = "thrown" /\ value' = value
     ELSE pc' = "loop" /\ value' = loopVar.start
  /\ UNCHANGED <<loopVar, loopMax, pushed, mainVars, arrVars, twiceVars, errVars>>

(* value <= end holds: enter the body *)
LoopTest ==
  /\ pc = "loop" /\ value <= loopVar.end
  /\ pc' = "body"
  /\ UNCHANGED <<loopVar, loopMax, value, pushed, mainVars, arrVars, twiceVars, errVars>>

(* result.push({[name]: value}); value += step *)
LoopIterate ==
  /\ pc = "body"
  /\ pushed' = IF pushed < MaxPushed THEN pushed + 1 ELSE pushed
  /\ value' = IF value + loopVar.step < 0 - ValueFloor THEN value
              ELSE value + loopVar.step
  /\ pc' = "loop"
  /\ UNCHANGED <<loopVar, loopMax, mainVars, arrVars, twiceVars, errVars>>

(* !(value <= end): return result *)
LoopReturn ==
  /\ pc = "loop" /\ ~(value <= loopVar.end)
  /\ pc' = "returned"
  /\ UNCHANGED <<loopVar, loopMax, value, pushed, mainVars, arrVars, twiceVars, errVars>>

LoopNext == CheckLoopLength \/ LoopTest \/ LoopIterate \/ LoopReturn

SpecLoop == LoopInit /\ [][LoopNext]_vars /\ WF_vars(LoopNext)

(* C3: for every range whose step is not zero, expandLoopVars returns or   *)
(* throws after finitely many steps.                                       *)
C3_Terminates ==
  (loopVar.step # 0) => <>(pc \in {"returned", "thrown"})

-----------------------------------------------------------------------------
(* SpecTwice: expandObjs called twice in a row on one instance, nothing     *)
(* else touching the instance between the calls.  The instance is any       *)
(* module with its control points and parameter values, as the constructor  *)
(* holds it before its own expandObjs call (objs empty, no error).  The     *)
(* scene's random-number stream is a sequence of values the model does not  *)
(* know: a call that drew from it leaves any value as the next one.         *)

MaxRand == 1

RandValues == 0 .. MaxRand

TwiceInsts ==
  UNION { { [module |-> m, points |-> q, pointsIsNull |-> FALSE, params |-> ps,
             notDone |-> FALSE, objs |-> <<>>, error |-> Null] :
              q \in [1 .. Modules[m].numPoints -> Pos],
              ps \in [ParamNames(m) -> 1 .. MaxParam] } : m \in DOMAIN Modules }

TwiceInit ==
  /\ stage = "live" /\ inst \in TwiceInsts /\ scene = <<>> /\ lastEvent = "none"
  /\ exit = "return" /\ calls = 0 /\ objsAtCall = <<>> /\ lastArgs = <<>>
  /\ rng \in RandValues /\ runs = <<>>
  /\ ArrIdle /\ LoopIdle /\ ErrIdle

(* The call drew from the stream: a stochastic module whose templates were  *)
(* expanded.                                                                *)
Drew(self, e) == self.module \in Stochastic /\ e.exit = "return"

Ran(e) ==
  /\ inst' = e.self
  /\ exit' = e.exit
  /\ calls' = calls + 1
  /\ objsAtCall' = inst.objs
  /\ runs' = Append(runs, [rng |-> rng, objs |-> e.self.objs, error |-> e.self.error,
                           exit |-> e.exit])
  /\ rng' \in (IF Drew(inst, e) THEN RandValues ELSE {rng})

CallExpandObjs ==
  /\ Len(runs) < 2
  /\ exit # "hang"
  /\ Ran(ExpandObjs(inst))
  /\ UNCHANGED <<stage, scene, lastEvent, lastArgs, arrVars, loopState, errVars>>

TwiceNext == CallExpandObjs

SpecTwice == TwiceInit /\ [][TwiceNext]_vars

(* C11: two expandObjs calls in a row on an instance whose module           *)
(* definition, control points and parameter values did not change leave     *)
(* the same expanded objects both times.                                    *)
C11_Idempotent ==
  Len(runs) = 2 => runs[2].objs = runs[1].objs

(* C11, amended: the same, for a module whose templates do not call         *)
(* `random`, and for any module when the random-number stream gave both     *)
(* calls the same values.                                                   *)
C11_IdempotentSameDraws ==
  (Len(runs) = 2 /\ (inst.module \notin Stochastic \/ runs[2].rng = runs[1].rng))
    => runs[2].objs = runs[1].objs

C11_Witness ==
  /\ Len(runs) = 2 /\ inst.module \in Stochastic
  /\ runs[2].rng = runs[1].rng
  /\ Len(runs[1].objs) = 1 /\ runs[2].objs = runs[1].objs

-----------------------------------------------------------------------------
(* SpecError: getError applied once to an instance whose error and whose    *)
(* expanded objects are drawn from a bounded set: no error or one of the    *)
(* errors an expansion records, and up to MaxObjs objects of two types,     *)
(* each without an error or with one of two.                                *)

MaxObjs == 3

ErrValues == {Null, TemplateExpansionError, TypeError}

ErrObjs == [type : {"Mirror", "CustomMirror"}, error : {Null, "e1", "e2"}]

ErrInsts ==
  UNION { { [module |-> "fixed", points |-> <<>>, pointsIsNull |-> FALSE,
             params |-> EmptyObj, notDone |-> FALSE, objs |-> objs, error |-> e] :
              objs \in [1 .. n -> ErrObjs], e \in ErrValues } : n \in 0 .. MaxObjs }

ErrInit ==
  /\ stage = "live" /\ inst \in ErrInsts /\ scene = <<>> /\ lastEvent = "none"
  /\ exit = "return" /\ calls = 0 /\ objsAtCall = <<>> /\ lastArgs = <<>>
  /\ ArrIdle /\ LoopIdle /\ TwiceIdle /\ ErrIdle

CallGetError ==
  /\ report.kind = "idle"
  /\ report' = GetError(inst)
  /\ UNCHANGED <<mainVars, arrVars, loopState, twiceVars>>

ErrNext == CallGetError

SpecError == ErrInit /\ [][ErrNext]_vars

(* The expanded objects that have an error, by position in objs (from 1). *)
Erroring == { i \in 1 .. Len(inst.objs) : inst.objs[i].error # Null }

LineOf(line, i) ==
  /\ i \in Erroring
  /\ line.type = inst.objs[i].type
  /\ line.error = inst.objs[i].error

(* C13: getError returns the instance's own error whenever it has one,     *)
(* whatever its expanded objects report; otherwise nothing when no         *)
(* expanded object has an error, and else one report with exactly one line *)
(* for each expanded object that has an error, in index order, each line   *)
(* carrying the object's index, its type and its error.                    *)
C13_OwnErrorFirst ==
  report.kind # "idle" =>
    IF inst.error # Null THEN report = [kind |-> "error", val |-> inst.error]
    ELSE IF Erroring = {} THEN report.kind = "null"
    ELSE /\ report.kind = "report"
         /\ Len(report.val) = Cardinality(Erroring)
         /\ \A k \in 1 .. Len(report.val) :
              /\ LineOf(report.val[k], report.val[k].index + 1)
              /\ k > 1 => report.val[k - 1].index < report.val[k].index

C13_Witness ==
  /\ report.kind = "report" /\ Len(report.val) = 2
  /\ Len(inst.objs) = 3 /\ inst.objs[1].error = Null
  /\ inst.objs[2].type # inst.objs[3].type

=============================================================================
